---------------------------- MODULE Spec2Model ----------------------------
(***************************************************************************)
(* A model of biotuner's harmonic_connectivity module                      *)
(* (src/biotuner/harmonic_connectivity.py).                                *)
(*                                                                         *)
(* Three computations are modelled, each with a specification of its own:  *)
(*   SpecHC   compute_harm_connectivity      (pairwise driver + dispatch)  *)
(*   SpecTR   compute_time_resolved_harm_connectivity (per-pair cache)     *)
(*   SpecFDR  temporal_correlation_fdr       (correlation + BH correction) *)
(*                                                                         *)
(* Values returned by the external collaborators (peak extraction, filters,*)
(* Hilbert transform, dyad similarity, ...) are opaque: a metric value is  *)
(* a term [op, sig, args] naming the computation and what it was applied   *)
(* to, so that a cell holding the value of another pair, or a mean over a  *)
(* different list, differs from the expected one.                          *)
(***************************************************************************)
EXTENDS Integers, Sequences, FiniteSets, TLC

VARIABLES
    \* ---- compute_harm_connectivity ----
    hc_pc,              \* "idle" | "loop" | "assemble" | "done" | "failed"
    metric,             \* the metric argument
    self_metric,        \* self.metric
    data,               \* self.data: number of channels (len(data))
    peaks,              \* what peaks_extraction yields for each channel
    FREQ_BANDS,         \* number of frequency bands in effect
    e,                  \* loop index of `for i, pair in enumerate(pairs)`
    harm_conn_matrix,   \* the growing list of per-pair results
    harm_conn_tensor,   \* harm_conn_matrix when it is the pre-allocated 3-D array
    conn_matrix,        \* self.conn_matrix
    returned,           \* what the call returned
    error,              \* the exception that ended the call, "none" otherwise
    extractions,        \* number of peaks_extraction calls made
    \* ---- compute_time_resolved_harm_connectivity ----
    tr_pc,              \* "idle" | "loop" | "done"
    tr_metric,          \* the metric argument
    nIMFs,
    numDataPoints,
    num_electrodes,
    tr_k,               \* position in the imf/t/i/j loop nest
    connectivity_matrices,
    harmonicity_cache,
    emd_calls,          \* how often EMD_time_resolved_harmonicity ran per pair
    \* ---- temporal_correlation_fdr ----
    fdr_pc,             \* "idle" | "loop" | "correct" | "done"
    series,             \* the data argument: electrodes x samples, NaN allowed
    fdr_k,              \* position in the i/j loop nest
    connectivity_matrix,
    pvals_matrix,
    fdr_corrected_pvals,
    fdr_runs,           \* number of multipletests calls made
    pairs_at_correction, \* how many pairs had a p-value when multipletests ran
    \* ---- the harmsim and RRCi branches of one channel pair ----
    pk_pc,              \* "idle" | "loop" | "done" | "failed"
    pk_metric,          \* "harmsim" | "RRCi"
    bt1_peaks,          \* list1 = bt1.peaks
    bt2_peaks,          \* list2 = bt2.peaks
    pk_k,               \* position in the loop over the cross-pairs of peaks
    ratios,             \* the list the loop appends to (ratios / rrci_values)
    pk_value,           \* what the branch appends to harm_conn_matrix
    pk_error,           \* the exception that ended the branch, "none" otherwise
    \* ---- EMD_time_resolved_harmonicity ----
    em_pc,              \* "idle" | "loop" | "done" | "failed"
    em_method,          \* the method argument
    em_shape,           \* <<len(IF1), nIMFs>>
    em_k,               \* position in the loop over (i, imf)
    IF1,                \* instantaneous frequencies of series 1 read so far
    IF2,                \* instantaneous frequencies of series 2 read so far
    em_harmonicity,     \* harmonicity: the samples x modes result array
    em_error,           \* the exception that ended the call, "none" otherwise
    \* ---- transitional_connectivity ----
    tc_pc,              \* "idle" | "loop" | "done"
    self_sf,            \* self.sf
    self_data,          \* self.data
    sf,                 \* the sf argument, then the sf in effect
    tc_data,            \* the data argument, then the data in effect
    trans_subharm_tot,  \* the per-channel series collected so far
    tc_returned,        \* what the call returned
    \* ---- rhythm_construction.bjorklund ----
    bj_pc,              \* "idle" | "loop" | "build" | "done" | "failed"
    steps,
    pulses,
    counts,
    remainders,
    divisor,
    level,
    pattern,
    bj_error,           \* the exception that ended the call, "none" otherwise
    \* ---- interval_vector, interval_vec_to_string, euclid_long_to_short ----
    iv_pc,              \* "idle" | "vector" | "string" | "done" | "failed"
    euclid,             \* the binary pattern
    vector,             \* interval_vector(euclid)
    strings,            \* interval_vec_to_string([vector])
    short,              \* euclid_long_to_short(euclid)
    iv_error,           \* the exception that ended a call, "none" otherwise
    \* ---- scale2euclid and binome2euclid ----
    rc_pc,              \* "idle" | "loop" | "patterns" | "return" | "done"
    s2e_scale,          \* scale2euclid: the scale, a list of ratios <<p, q>>
    max_denom,          \* scale2euclid: the max_denom argument
    mode,               \* scale2euclid: the mode argument
    rc_num,             \* the numerators returned by scale2frac
    denom,              \* the denominators returned by scale2frac
    rc_k,               \* scale2euclid: position of the loop in zip(num, denom)
    euclid_patterns,    \* the list of patterns being collected
    appended,           \* history: the patterns appended for each fraction
    binome,             \* binome2euclid: the two ratios
    n_steps_down,       \* binome2euclid: the n_steps_down argument
    limit_denom,        \* binome2euclid: the limit_denom argument
    inverted,           \* binome2euclid: the two results of invert_ratio
    new_denom,          \* binome2euclid: the number of steps of the patterns
    b2e_returned        \* binome2euclid: the returned tuple, <<>> before

hc_vars == <<hc_pc, metric, self_metric, data, peaks, FREQ_BANDS, e,
             harm_conn_matrix, harm_conn_tensor, conn_matrix, returned, error,
             extractions>>
tr_vars == <<tr_pc, tr_metric, nIMFs, numDataPoints, num_electrodes, tr_k,
             connectivity_matrices, harmonicity_cache, emd_calls>>
fdr_vars == <<fdr_pc, series, fdr_k, connectivity_matrix, pvals_matrix,
              fdr_corrected_pvals, fdr_runs, pairs_at_correction>>
pk_vars == <<pk_pc, pk_metric, bt1_peaks, bt2_peaks, pk_k, ratios, pk_value, pk_error>>
em_vars == <<em_pc, em_method, em_shape, em_k, IF1, IF2, em_harmonicity, em_error>>
tc_vars == <<tc_pc, self_sf, self_data, sf, tc_data, trans_subharm_tot, tc_returned>>
bj_vars == <<bj_pc, steps, pulses, counts, remainders, divisor, level, pattern, bj_error>>
iv_vars == <<iv_pc, euclid, vector, strings, short, iv_error>>
rc_vars == <<rc_pc, s2e_scale, max_denom, mode, rc_num, denom, rc_k, euclid_patterns,
             appended, binome, n_steps_down, limit_denom, inverted, new_denom,
             b2e_returned>>
vars == <<hc_vars, tr_vars, fdr_vars, pk_vars, em_vars, tc_vars, bj_vars, iv_vars,
          rc_vars>>

-----------------------------------------------------------------------------
(* Bounds of the model *)

\* compute_harm_connectivity: at most this many channels
MaxChannels == 2
\* at most this many peaks per channel
MaxPeaks == 2
\* at most this many frequency bands
MaxBands == 2

\* peak frequencies (Hz) the peak provider may return
PeakFreqs == {2, 3}

-----------------------------------------------------------------------------
(* Generic helpers *)

RECURSIVE SeqsUpTo(_, _)
\* all sequences over S of length 0..n
SeqsUpTo(S, n) ==
    IF n = 0 THEN {<<>>}
    ELSE LET shorter == SeqsUpTo(S, n - 1)
         IN shorter \cup {Append(s, x) : s \in {t \in shorter : Len(t) = n - 1}, x \in S}

RECURSIVE Concat(_)
\* concatenation of a sequence of sequences
Concat(ss) == IF ss = <<>> THEN <<>> ELSE Head(ss) \o Concat(Tail(ss))

\* itertools.product(a, b) as a list: a is the outer loop
Product(a, b) ==
    Concat([x \in 1..Len(a) |-> [y \in 1..Len(b) |-> <<a[x], b[y]>>]])

\* F applied to the value of v (v is evaluated once)
With(v, F(_)) == CHOOSE r \in {F(x) : x \in {v}} : TRUE

\* list(range(n))
Range(n) == [k \in 1..n |-> k - 1]

-----------------------------------------------------------------------------
(* Metric values *)

Metrics == {"harmsim", "euler", "harm_fit", "subharm_tension", "RRCi",
            "wPLI_crossfreq", "wPLI_multiband", "MI", "MI_spectral"}
ScalarMetrics == Metrics \ {"wPLI_multiband"}
PeakMetrics == ScalarMetrics

\* an opaque value: operation op applied to the signals of channels sig and
\* to the peak data args
Term(op, sig, args) == [op |-> op, sig |-> sig, args |-> args]

\* the initial content of an np.zeros cell
Zero == Term("zero", <<>>, <<>>)

\* a faulty variant: only a larger first peak yields a ratio
RatioOf_FirstLargerOnly(p) ==
    IF p[1] > p[2] THEN << <<p[1], p[2]>> >> ELSE <<>>

\* lines 190-196: one ratio (larger, smaller) per cross-pair of unequal peaks
RatioOf(p) ==
    (IF p[1] > p[2] THEN << <<p[1], p[2]>> >> ELSE <<>>)
    \o (IF p[2] > p[1] THEN << <<p[2], p[1]>> >> ELSE <<>>)

harmsim_ratios(list1, list2) ==
    LET harm_pairs == Product(list1, list2)
    IN Concat([k \in 1..Len(harm_pairs) |-> RatioOf(harm_pairs[k])])

\* external metrics of biotuner.metrics given an empty peak list: the
\* sentinel (section 4.1 of the specification)
ExternalOnEmpty(op) == Term(op, <<>>, <<>>)

\* the value one ordered channel pair (i, j) is meant to contribute under a
\* scalar metric m: the metric applied to channel i first, channel j second
MetricValue(m, i, j) ==
    LET list1 == peaks[i]
        list2 == peaks[j]
        cross == Product(list1, list2)
    IN CASE m = "subharm_tension" ->
              IF list1 = <<>> \/ list2 = <<>>
              THEN ExternalOnEmpty("sub_tension_final")
              ELSE Term("sub_tension_final", <<>>, <<list1, list2>>)
         [] m = "harmsim" ->
              Term("mean_harmsim", <<>>, harmsim_ratios(list1, list2))
         [] m = "RRCi" -> Term("mean_rrci", <<i, j>>, cross)
         [] m = "euler" ->
              LET list_all == list1 \o list2
              IN IF list_all = <<>>
                 THEN ExternalOnEmpty("euler")
                 ELSE Term("euler", <<>>,
                           <<[k \in 1..Len(list_all) |-> list_all[k] * 10]>>)
         [] m = "harm_fit" -> Term("sum_harm_fit", <<>>, cross)
         [] m = "wPLI_crossfreq" -> Term("mean_wPLI", <<i, j>>, cross)
         [] m = "MI" -> Term("mean_MI", <<i, j>>, cross)
         [] m = "MI_spectral" -> Term("avg_mi", <<i, j>>, cross)
         [] OTHER -> Zero

\* np.mean([]) (NaN), np.sum([]) (0) or the external sentinel: a value no
\* peak took part in
IsSentinel(v) == v.args = <<>>

\* lines 243-262: the MI branch appends the running mean after every
\* cross-pair of peaks (the append sits inside the inner loop)
MI_appends(i, j) ==
    LET cross == Product(peaks[i], peaks[j])
    IN [k \in 1..Len(cross) |-> Term("mean_MI", <<i, j>>, SubSeq(cross, 1, k))]

\* what one iteration of the pair loop appends to harm_conn_matrix
Appended(m, i, j) ==
    IF m = "MI" THEN MI_appends(i, j)
    ELSE IF m \in ScalarMetrics THEN <<MetricValue(m, i, j)>>
    ELSE <<>>

\* lines 238-241: wPLI_multiband returns one value per band
wPLI_multiband(i, j, freq_bands) ==
    [b \in 1..freq_bands |-> Term("wPLI_band", <<i, j>>, << <<b>> >>)]


-----------------------------------------------------------------------------
(* compute_harm_connectivity (lines 83-283) *)

\* a metric string that is none of the nine recognized tags
InvalidMetric == "not_a_metric"

\* a matrix value: where it comes from and its cells
Matrix(kind, cells) == [kind |-> kind, cells |-> cells]
PreviousConn == Matrix("previous", <<>>)
NoMatrix == Matrix("none", <<>>)

\* lines 146-147: pairs = list(itertools.product(list_idx, list_idx))
PairList(n) == Product(Range(n), Range(n))

PeakLists == SeqsUpTo(PeakFreqs, MaxPeaks)

HCIdle ==
    /\ hc_pc = "idle"
    /\ metric = "harmsim"
    /\ self_metric = "unset"
    /\ FREQ_BANDS = 0
    /\ e = 0
    /\ harm_conn_matrix = <<>>
    /\ harm_conn_tensor = <<>>
    /\ conn_matrix = PreviousConn
    /\ returned = NoMatrix
    /\ error = "none"
    /\ extractions = 0

HCInit ==
    /\ data \in 1..MaxChannels
    /\ peaks \in [0..(data - 1) -> PeakLists]
    /\ HCIdle

\* lines 144-158: the call starts; the result list (or the banded tensor
\* of zeros) is set up before the pair loop.  The number of bands varies for
\* wPLI_multiband, the one metric whose result depends on it.
compute_harm_connectivity_begin ==
    /\ hc_pc = "idle"
    /\ \E m \in Metrics \cup {InvalidMetric}, nb \in 1..MaxBands :
        /\ m # "wPLI_multiband" => nb = MaxBands
        /\ metric' = m
        /\ self_metric' = m
        /\ FREQ_BANDS' = nb
        /\ harm_conn_tensor' =
              IF m = "wPLI_multiband"
              THEN [c \in (1..nb) \X (0..(data - 1)) \X (0..(data - 1)) |-> Zero]
              ELSE <<>>
    /\ harm_conn_matrix' = <<>>
    /\ e' = 0
    /\ hc_pc' = "loop"
    /\ UNCHANGED <<data, peaks, conn_matrix, returned, error, extractions>>
    /\ UNCHANGED <<tr_vars, fdr_vars, pk_vars, em_vars, tc_vars, bj_vars, iv_vars, rc_vars>>

\* a faulty variant: the band values are written to cell (j, i)
WriteBands_Transposed(tensor, i, j, values) ==
    [c \in DOMAIN tensor |->
        IF c[2] = j /\ c[3] = i THEN values[c[1]] ELSE tensor[c]]

\* the band values of pair (i, j) written into the tensor (lines 240-241)
WriteBands(tensor, i, j, values) ==
    [c \in DOMAIN tensor |->
        IF c[2] = i /\ c[3] = j THEN values[c[1]] ELSE tensor[c]]

\* lines 159-270: one iteration of the pair loop: both peak extractions,
\* then the branch of the selected metric
compute_harm_connectivity_pair ==
    /\ hc_pc = "loop"
    /\ e < Len(PairList(data))
    /\ LET pair == PairList(data)[e + 1]
       IN /\ harm_conn_matrix' =
                harm_conn_matrix \o Appended(metric, pair[1], pair[2])
          /\ harm_conn_tensor' =
                IF metric = "wPLI_multiband"
                THEN WriteBands(harm_conn_tensor, pair[1], pair[2],
                                wPLI_multiband(pair[1], pair[2], FREQ_BANDS))
                ELSE harm_conn_tensor
    /\ extractions' = extractions + 2
    /\ e' = e + 1
    /\ UNCHANGED <<hc_pc, metric, self_metric, data, peaks, FREQ_BANDS,
                   conn_matrix, returned, error>>
    /\ UNCHANGED <<tr_vars, fdr_vars, pk_vars, em_vars, tc_vars, bj_vars, iv_vars, rc_vars>>

\* a faulty variant: the results accumulated so far are stored on failure
OnPairError_StoresPartial == Matrix("partial", harm_conn_matrix)

\* where an exception raised inside the pair loop leaves the instance:
\* nothing catches it, so the call ends and self.conn_matrix (set on line
\* 282 only) is as before the call
OnPairError == conn_matrix

\* lines 180-270: the metric computation of the iteration (a filter, the
\* Hilbert transform, a metric routine) raises
compute_harm_connectivity_pair_raises ==
    /\ hc_pc = "loop"
    /\ e < Len(PairList(data))
    /\ metric \in Metrics
    /\ extractions' = extractions + 2
    /\ hc_pc' = "failed"
    /\ error' = "MetricError"
    /\ conn_matrix' = OnPairError
    /\ UNCHANGED <<metric, self_metric, data, peaks, FREQ_BANDS, e,
                   harm_conn_matrix, harm_conn_tensor, returned>>
    /\ UNCHANGED <<tr_vars, fdr_vars, pk_vars, em_vars, tc_vars, bj_vars, iv_vars, rc_vars>>

RECURSIVE FillMatrix(_, _, _, _)
\* lines 276-277: for e, p in enumerate(pairs): matrix[p] = results[e]
FillMatrix(cells, pairs, results, k) ==
    IF k > Len(pairs) THEN cells
    ELSE FillMatrix([cells EXCEPT ![pairs[k]] = results[k]], pairs, results, k + 1)

\* the index of the result list that line 277 reads for pair number k
ResultIndex(k) == k

\* lines 275-277
AssembleMatrix(pairs, results) ==
    FillMatrix([p \in (0..(data - 1)) \X (0..(data - 1)) |-> Zero], pairs,
               [k \in 1..Len(pairs) |-> results[ResultIndex(k)]], 1)

\* lines 272-283: the matrix is assembled, stored and returned; reading a
\* result that was never appended raises IndexError
compute_harm_connectivity_assemble ==
    /\ hc_pc = "loop"
    /\ e = Len(PairList(data))
    /\ IF metric = "wPLI_multiband"
       THEN /\ conn_matrix' = Matrix("tensor", harm_conn_tensor)
            /\ returned' = Matrix("tensor", harm_conn_tensor)
            /\ hc_pc' = "done"
            /\ error' = error
       ELSE IF Len(harm_conn_matrix) < Len(PairList(data))
       THEN /\ hc_pc' = "failed"
            /\ error' = "IndexError"
            /\ UNCHANGED <<conn_matrix, returned>>
       ELSE LET matrix == AssembleMatrix(PairList(data), harm_conn_matrix)
            IN /\ conn_matrix' = Matrix("matrix", matrix)
               /\ returned' = Matrix("matrix", matrix)
               /\ hc_pc' = "done"
               /\ error' = error
    /\ UNCHANGED <<metric, self_metric, data, peaks, FREQ_BANDS, e,
                   harm_conn_matrix, harm_conn_tensor, extractions>>
    /\ UNCHANGED <<tr_vars, fdr_vars, pk_vars, em_vars, tc_vars, bj_vars, iv_vars, rc_vars>>

HCNext ==
    \/ compute_harm_connectivity_begin
    \/ compute_harm_connectivity_pair
    \/ compute_harm_connectivity_pair_raises
    \/ compute_harm_connectivity_assemble

-----------------------------------------------------------------------------
(* compute_time_resolved_harm_connectivity (lines 286-327) *)

\* at most this many electrodes, samples and modes
MaxElectrodes == 3
MaxSamples == 2
MaxIMFs == 2

TRMethods == {"harmsim", "subharm_tension"}

\* lines 637-683: the samples x modes harmonicity array of the pair of
\* time series (i, j); a method that is neither branch leaves the zeros
EMD_time_resolved_harmonicity(i, j, samples, modes, method) ==
    [c \in (0..(samples - 1)) \X (0..(modes - 1)) |->
        IF method \in TRMethods
        THEN Term(method, <<i, j>>, << <<c[1], c[2]>> >>)
        ELSE Zero]

RECURSIVE UpperPairs_WithDiagonal(_, _, _)
\* a faulty variant: the inner loop starts at j = i, not at i + 1
UpperPairs_WithDiagonal(n, i, j) ==
    IF i >= n THEN <<>>
    ELSE IF j >= n THEN UpperPairs_WithDiagonal(n, i + 1, i + 1)
    ELSE <<<<i, j>>>> \o UpperPairs_WithDiagonal(n, i, j + 1)

\* line 316: the pairs (i, j), i < j, in loop order
RECURSIVE UpperPairs(_, _, _)
UpperPairs(n, i, j) ==
    IF i >= n THEN <<>>
    ELSE IF j >= n THEN UpperPairs(n, i + 1, i + 2)
    ELSE <<<<i, j>>>> \o UpperPairs(n, i, j + 1)

\* lines 313-316: the iterations <<imf, t, i, j>> of the loop nest, in order
TRIterations ==
    LET ps == UpperPairs(num_electrodes, 0, 1)
    IN Concat([m \in 1..nIMFs |->
          Concat([t \in 1..numDataPoints |->
             [q \in 1..Len(ps) |-> <<m - 1, t - 1, ps[q][1], ps[q][2]>>]])])

TRIdle ==
    /\ tr_pc = "idle"
    /\ tr_metric = "harmsim"
    /\ nIMFs = 0
    /\ tr_k = 0
    /\ connectivity_matrices = <<>>
    /\ harmonicity_cache = <<>>
    /\ emd_calls = <<>>

TRInit ==
    /\ num_electrodes \in 0..MaxElectrodes
    /\ numDataPoints \in 0..MaxSamples
    /\ TRIdle

\* lines 308-311: the zero tensor and the empty cache
compute_time_resolved_harm_connectivity_begin ==
    /\ tr_pc = "idle"
    /\ \E n \in 0..MaxIMFs, m \in TRMethods \cup {InvalidMetric} :
        /\ nIMFs' = n
        /\ tr_metric' = m
        /\ connectivity_matrices' =
              [c \in (0..(n - 1)) \X (0..(numDataPoints - 1))
                     \X (0..(num_electrodes - 1)) \X (0..(num_electrodes - 1))
                 |-> Zero]
    /\ harmonicity_cache' = <<>>
    /\ emd_calls' = [p \in (0..(num_electrodes - 1)) \X (0..(num_electrodes - 1)) |-> 0]
    /\ tr_k' = 0
    /\ tr_pc' = "loop"
    /\ UNCHANGED <<numDataPoints, num_electrodes>>
    /\ UNCHANGED <<hc_vars, fdr_vars, pk_vars, em_vars, tc_vars, bj_vars, iv_vars, rc_vars>>

\* a faulty variant: the cache is looked up under the reversed key
CacheHit_Reversed(pair_key) == <<pair_key[2], pair_key[1]>> \in DOMAIN harmonicity_cache

\* line 318: whether the pair's array is already in the cache
CacheHit(pair_key) == pair_key \in DOMAIN harmonicity_cache

\* a faulty variant: the value is written to (i, j) only
WriteCells_OneSided(tensor, imf, t, i, j, v) ==
    [c \in DOMAIN tensor |-> IF c = <<imf, t, i, j>> THEN v ELSE tensor[c]]

\* lines 324-325: the value is written to (i, j) and to (j, i)
WriteCells(tensor, imf, t, i, j, v) ==
    [c \in DOMAIN tensor |->
        IF c = <<imf, t, i, j>> \/ c = <<imf, t, j, i>> THEN v ELSE tensor[c]]

\* lines 317-325: one iteration of the innermost loop
compute_time_resolved_harm_connectivity_cell ==
    /\ tr_pc = "loop"
    /\ tr_k < Len(TRIterations)
    /\ LET it == TRIterations[tr_k + 1]
           imf == it[1]
           t == it[2]
           i == it[3]
           j == it[4]
           pair_key == <<i, j>>
           cache == IF CacheHit(pair_key) THEN harmonicity_cache
                    ELSE [p \in DOMAIN harmonicity_cache \cup {pair_key} |->
                            IF p = pair_key
                            THEN EMD_time_resolved_harmonicity(
                                    i, j, numDataPoints, nIMFs, tr_metric)
                            ELSE harmonicity_cache[p]]
           harmonicity == cache[pair_key]
       IN /\ harmonicity_cache' = cache
          /\ emd_calls' = IF CacheHit(pair_key) THEN emd_calls
                          ELSE [emd_calls EXCEPT ![pair_key] = @ + 1]
          /\ connectivity_matrices' =
                WriteCells(connectivity_matrices, imf, t, i, j, harmonicity[<<t, imf>>])
    /\ tr_k' = tr_k + 1
    /\ UNCHANGED <<tr_pc, tr_metric, nIMFs, numDataPoints, num_electrodes>>
    /\ UNCHANGED <<hc_vars, fdr_vars, pk_vars, em_vars, tc_vars, bj_vars, iv_vars, rc_vars>>

\* line 327: the tensor is returned
compute_time_resolved_harm_connectivity_return ==
    /\ tr_pc = "loop"
    /\ tr_k = Len(TRIterations)
    /\ tr_pc' = "done"
    /\ UNCHANGED <<tr_metric, nIMFs, numDataPoints, num_electrodes, tr_k,
                   connectivity_matrices, harmonicity_cache, emd_calls>>
    /\ UNCHANGED <<hc_vars, fdr_vars, pk_vars, em_vars, tc_vars, bj_vars, iv_vars, rc_vars>>

TRNext ==
    \/ compute_time_resolved_harm_connectivity_begin
    \/ compute_time_resolved_harm_connectivity_cell
    \/ compute_time_resolved_harm_connectivity_return

-----------------------------------------------------------------------------
(* temporal_correlation_fdr (lines 691-728) *)

\* at most this many series (electrodes), each of this many samples
MaxSeries == 2
SeriesLen == 3
\* p-values are multiples of 1/PUnit
PUnit == 3

\* a missing sample (np.isnan), and a p-value that is not a number
NaN == -1

\* the sample values a series may hold
SampleValues == {0, 1}

\* the series considered: samples are missing at the end only (series of
\* differing valid lengths), the samples before hold values; a series is
\* taken relative to its first sample (the correlation does not change when a
\* constant is added to a series)
SeriesSet ==
    {s \in [1..SeriesLen -> SampleValues \cup {NaN}] :
        /\ \A t \in 1..(SeriesLen - 1) : s[t] = NaN => s[t + 1] = NaN
        /\ s[1] \in {0, NaN}}

\* the values of Student's survival function strictly between 0 and 1 that
\* are considered, in units of 1/PUnit
InteriorPvalues == {1, 2}

\* data.shape[0]
NumSeries == Cardinality(DOMAIN series)

RECURSIVE SumOver(_, _)
\* the sum of f over the finite set S
SumOver(f, S) ==
    IF S = {} THEN 0
    ELSE LET x == CHOOSE y \in S : TRUE
         IN f[x] + SumOver(f, S \ {x})

\* line 717: the positions where both series hold a value
Overlap(i, j) == {t \in 1..SeriesLen : series[i][t] # NaN /\ series[j][t] # NaN}

\* a correlation: its sign and its square num/den; 0/0 is not a number
Corr(sign, num, den) == [sign |-> sign, num |-> num, den |-> den]
CorrNaN == Corr(0, 0, 0)
CorrZero == Corr(0, 0, 1)
IsNaNCorr(c) == c.den = 0

\* Pearson's correlation from the sums over n positions: the sign of the
\* covariance and the squared correlation cov^2 / (vx * vy); a zero
\* variance divides 0 by 0
pearson(n, sx, sy, sxy, sxx, syy) ==
    With(<<n * sxy - sx * sy, (n * sxx - sx * sx) * (n * syy - sy * sy)>>,
         LAMBDA cv :
            IF cv[2] = 0 THEN CorrNaN
            ELSE Corr(IF cv[1] > 0 THEN 1 ELSE IF cv[1] < 0 THEN -1 ELSE 0,
                      cv[1] * cv[1], cv[2]))

\* line 716: ma.corrcoef of series i and j over the positions both hold
\* (a position either series misses is masked in both)
corrcoef(i, j) ==
    With(Overlap(i, j), LAMBDA S :
        pearson(Cardinality(S),
                SumOver(series[i], S),
                SumOver(series[j], S),
                SumOver([t \in S |-> series[i][t] * series[j][t]], S),
                SumOver([t \in S |-> series[i][t] * series[i][t]], S),
                SumOver([t \in S |-> series[j][t] * series[j][t]], S)))

\* lines 718-720: the two-tailed p-value for correlation c over n samples.
\* The result is not a number when c is not, or when df <= 0 (0/0 under the
\* root); it is 0 when |c| = 1 (t is infinite) and 1 when c = 0; otherwise
\* it is what Student's survival function gives, strictly between 0 and 1
pvalues(c, n) ==
    LET df == n - 2
    IN IF IsNaNCorr(c) \/ df <= 0 THEN {NaN}
       ELSE IF c.num = c.den THEN {0}
       ELSE IF c.num = 0 THEN {PUnit}
       ELSE InteriorPvalues

RECURSIVE Fact(_)
Fact(n) == IF n <= 1 THEN 1 ELSE n * Fact(n - 1)

\* corrected p-values are multiples of 1/(PUnit * PScale(m)) for m tests
PScale(m) == Fact(m)

\* np.argsort order: numbers ascending, NaN last
SortsBefore(a, b) == a # NaN /\ (b = NaN \/ a < b)

\* the place (1..m) of entry q of p in sorted order; equal entries keep
\* their order
SortedPlace(p, q) ==
    Cardinality({c \in 1..Len(p) :
                    SortsBefore(p[c], p[q]) \/ (p[c] = p[q] /\ c < q)}) + 1

\* np.argsort(p): sortind[k] is the index of the entry at place k
argsort(p) ==
    With([q \in 1..Len(p) |-> SortedPlace(p, q)],
         LAMBDA place : [k \in 1..Len(p) |-> CHOOSE q \in 1..Len(p) : place[q] = k])

\* np.minimum: a NaN operand gives NaN
minimum(a, b) == IF a = NaN \/ b = NaN THEN NaN ELSE IF a <= b THEN a ELSE b

RECURSIVE accumulate(_, _, _)
\* np.minimum.accumulate(raw[::-1])[::-1]: the running minimum from the last
\* entry backwards; done holds the result for the places after k
accumulate(raw, k, done) ==
    IF k = 0 THEN done
    ELSE With(IF done = <<>> THEN <<raw[k]>>
              ELSE <<minimum(raw[k], done[1])>> \o done,
              LAMBDA d : accumulate(raw, k - 1, d))

\* pvals_sorted / ecdffactor, in units of 1/(PUnit*scale)
corrected_raw(pvals_sorted, scale) ==
    [k \in 1..Len(pvals_sorted) |->
        IF pvals_sorted[k] = NaN THEN NaN
        ELSE pvals_sorted[k] * Len(pvals_sorted) * (scale \div k)]

\* pvals_corrected[pvals_corrected > 1] = 1
capped(acc, scale) ==
    [k \in 1..Len(acc) |-> IF acc[k] > PUnit * scale THEN PUnit * scale ELSE acc[k]]

\* fdrcorrection on sorted p-values: over rank/m, the running minimum from
\* the largest, capped at 1
corrected_sorted(pvals_sorted) ==
    With(PScale(Len(pvals_sorted)), LAMBDA scale :
      With(corrected_raw(pvals_sorted, scale), LAMBDA raw :
        With(accumulate(raw, Len(raw), <<>>), LAMBDA acc : capped(acc, scale))))

\* pvals_corrected_[sortind] = pvals_corrected
unsorted(pvals_corrected, sortind) ==
    With([k \in 1..Len(sortind) |-> <<sortind[k], pvals_corrected[k]>>],
         LAMBDA placed :
            [q \in 1..Len(sortind) |->
                (CHOOSE x \in {placed[k] : k \in 1..Len(sortind)} : x[1] = q)[2]])

\* line 725: multipletests(pvals, method='fdr_bh')[1], the Benjamini-Hochberg
\* adjustment: sort, divide by rank/m, running minimum from the largest,
\* cap at 1, back to the original order.  In units of 1/(PUnit*PScale(m)).
multipletests(pvals) ==
    With(pvals, LAMBDA pv :
      With(argsort(pv), LAMBDA sortind :
        With(corrected_sorted([k \in 1..Len(pv) |-> pv[sortind[k]]]),
             LAMBDA pvals_corrected : unsorted(pvals_corrected, sortind))))

\* line 724: pvals_matrix.flatten() (row-major)
flatten(matrix, n) == [k \in 1..(n * n) |-> matrix[<<(k - 1) \div n, (k - 1) % n>>]]

\* a faulty variant: the flat vector is read back column by column
reshape_ColumnMajor(flat, n) ==
    With(flat, LAMBDA f : [c \in (0..(n - 1)) \X (0..(n - 1)) |-> f[c[2] * n + c[1] + 1]])

\* line 726: reshape((num_electrodes, num_electrodes))
reshape(flat, n) ==
    With(flat, LAMBDA f : [c \in (0..(n - 1)) \X (0..(n - 1)) |-> f[c[1] * n + c[2] + 1]])

FDRIdle ==
    /\ fdr_pc = "idle"
    /\ fdr_k = 0
    /\ connectivity_matrix = <<>>
    /\ pvals_matrix = <<>>
    /\ fdr_corrected_pvals = <<>>
    /\ fdr_runs = 0
    /\ pairs_at_correction = 0

FDRInit ==
    /\ \E n \in 1..MaxSeries :
          series \in [0..(n - 1) -> SeriesSet]
    /\ FDRIdle

\* lines 703-709: the two zero matrices
temporal_correlation_fdr_begin ==
    /\ fdr_pc = "idle"
    /\ connectivity_matrix' =
          [c \in (0..(NumSeries - 1)) \X (0..(NumSeries - 1)) |-> CorrZero]
    /\ pvals_matrix' = [c \in (0..(NumSeries - 1)) \X (0..(NumSeries - 1)) |-> 0]
    /\ fdr_k' = 0
    /\ fdr_pc' = "loop"
    /\ UNCHANGED <<series, fdr_corrected_pvals, fdr_runs, pairs_at_correction>>
    /\ UNCHANGED <<hc_vars, tr_vars, pk_vars, em_vars, tc_vars, bj_vars, iv_vars, rc_vars>>

\* lines 713-722: correlation and raw p-value of the ordered pair (i, j)
temporal_correlation_fdr_pair ==
    /\ fdr_pc = "loop"
    /\ fdr_k < NumSeries * NumSeries
    /\ LET i == fdr_k \div NumSeries
           j == fdr_k % NumSeries
           corr == corrcoef(i, j)
           n == Cardinality(Overlap(i, j))
       IN \E pval \in pvalues(corr, n) :
            /\ connectivity_matrix' = [connectivity_matrix EXCEPT ![<<i, j>>] = corr]
            /\ pvals_matrix' = [pvals_matrix EXCEPT ![<<i, j>>] = pval]
    /\ fdr_k' = fdr_k + 1
    /\ UNCHANGED <<fdr_pc, series, fdr_corrected_pvals, fdr_runs, pairs_at_correction>>
    /\ UNCHANGED <<hc_vars, tr_vars, pk_vars, em_vars, tc_vars, bj_vars, iv_vars, rc_vars>>

\* the pair loops (lines 711-712) have ended
LoopsEnded == fdr_k = NumSeries * NumSeries

\* lines 724-728: one correction of the flattened p-values, reshaped, and
\* the return
temporal_correlation_fdr_correct ==
    /\ fdr_pc = "loop"
    /\ LoopsEnded
    /\ LET pvals == flatten(pvals_matrix, NumSeries)
       IN fdr_corrected_pvals' = reshape(multipletests(pvals), NumSeries)
    /\ fdr_runs' = fdr_runs + 1
    /\ pairs_at_correction' = fdr_k
    /\ fdr_pc' = "done"
    /\ UNCHANGED <<series, fdr_k, connectivity_matrix, pvals_matrix>>
    /\ UNCHANGED <<hc_vars, tr_vars, pk_vars, em_vars, tc_vars, bj_vars, iv_vars, rc_vars>>

FDRNext ==
    \/ temporal_correlation_fdr_begin
    \/ temporal_correlation_fdr_pair
    \/ temporal_correlation_fdr_correct

-----------------------------------------------------------------------------
(* The harmsim and RRCi branches for one channel pair (lines 189-205) and  *)
(* compute_rhythmic_ratio (lines 504-506)                                  *)

\* at most this many peaks in each of the two lists
MaxPairPeaks == 2

\* the peak frequencies considered here, a zero-valued peak included
PairFreqs == {0, 2, 3, 5}

PairMetrics == {"harmsim", "RRCi"}

\* the ways a division by zero can end: Python floats raise
\* ZeroDivisionError; numpy floats give inf (or nan for 0/0)
FloatKinds == {"python", "numpy"}

RECURSIVE gcd(_, _)
gcd(a, b) == IF b = 0 THEN a ELSE gcd(b, a % b)

\* lines 504-506: Fraction(freq1 / freq2).limit_denominator(max_denom) as
\* (numerator, denominator); the quotient is formed without any guard, and
\* Fraction refuses inf and nan
compute_rhythmic_ratio(freq1, freq2, kind) ==
    IF freq2 = 0
    THEN [error |-> IF kind = "python" THEN "ZeroDivisionError"
                    ELSE IF freq1 = 0 THEN "ValueError" ELSE "OverflowError",
          value |-> <<>>]
    ELSE [error |-> "none",
          value |-> <<freq1 \div gcd(freq1, freq2), freq2 \div gcd(freq1, freq2)>>]

\* lines 192-196 for one cross-pair p: what is appended to ratios, and the
\* error of an unguarded division by a zero-valued peak
harmsim_step(p, kind) ==
    IF p[1] > p[2] /\ p[2] = 0 /\ kind = "python"
    THEN [error |-> "ZeroDivisionError", value |-> <<>>]
    ELSE IF p[2] > p[1] /\ p[1] = 0 /\ kind = "python"
    THEN [error |-> "ZeroDivisionError", value |-> <<>>]
    ELSE [error |-> "none", value |-> RatioOf(p)]

\* lines 201-204 for one cross-pair p
rrci_step(p, kind) ==
    LET r == compute_rhythmic_ratio(p[1], p[2], kind)
    IN IF r.error # "none" THEN r
       ELSE [error |-> "none", value |-> << r.value >>]

PKIdle ==
    /\ pk_pc = "idle"
    /\ pk_metric = "harmsim"
    /\ pk_k = 0
    /\ ratios = <<>>
    /\ pk_value = Zero
    /\ pk_error = "none"

PKInit ==
    /\ bt1_peaks \in SeqsUpTo(PairFreqs, MaxPairPeaks)
    /\ bt2_peaks \in SeqsUpTo(PairFreqs, MaxPairPeaks)
    /\ PKIdle

\* lines 189-191 / 199-200: the branch of the metric starts with an empty list
peak_pairs_begin ==
    /\ pk_pc = "idle"
    /\ \E m \in PairMetrics : pk_metric' = m
    /\ ratios' = <<>>
    /\ pk_k' = 0
    /\ pk_pc' = "loop"
    /\ UNCHANGED <<bt1_peaks, bt2_peaks, pk_value, pk_error>>
    /\ UNCHANGED <<hc_vars, tr_vars, fdr_vars, em_vars, tc_vars, bj_vars, iv_vars, rc_vars>>

\* lines 192-196 / 201-204: one cross-pair of peaks
peak_pairs_step ==
    /\ pk_pc = "loop"
    /\ pk_k < Len(Product(bt1_peaks, bt2_peaks))
    /\ \E kind \in FloatKinds :
          LET p == Product(bt1_peaks, bt2_peaks)[pk_k + 1]
              r == IF pk_metric = "harmsim" THEN harmsim_step(p, kind)
                   ELSE rrci_step(p, kind)
          IN IF r.error # "none"
             THEN /\ pk_pc' = "failed"
                  /\ pk_error' = r.error
                  /\ UNCHANGED <<ratios, pk_k>>
             ELSE /\ ratios' = ratios \o r.value
                  /\ pk_k' = pk_k + 1
                  /\ UNCHANGED <<pk_pc, pk_error>>
    /\ UNCHANGED <<pk_metric, bt1_peaks, bt2_peaks, pk_value>>
    /\ UNCHANGED <<hc_vars, tr_vars, fdr_vars, em_vars, tc_vars, bj_vars, iv_vars, rc_vars>>

\* lines 197-198 / 205: the mean over the list is appended
peak_pairs_mean ==
    /\ pk_pc = "loop"
    /\ pk_k = Len(Product(bt1_peaks, bt2_peaks))
    /\ pk_value' = Term(IF pk_metric = "harmsim" THEN "mean_harmsim" ELSE "mean_rrci",
                        <<>>, ratios)
    /\ pk_pc' = "done"
    /\ UNCHANGED <<pk_metric, bt1_peaks, bt2_peaks, pk_k, ratios, pk_error>>
    /\ UNCHANGED <<hc_vars, tr_vars, fdr_vars, em_vars, tc_vars, bj_vars, iv_vars, rc_vars>>

PKNext ==
    \/ peak_pairs_begin
    \/ peak_pairs_step
    \/ peak_pairs_mean

-----------------------------------------------------------------------------
(* EMD_time_resolved_harmonicity (lines 637-683), cell by cell *)

\* at most this many cells (samples x modes) in the harmonicity array
MaxEMDCells == 2

\* the instantaneous frequencies considered, zero included
IFValues == {0, 2, 3}

EMDMethods == {"harmsim", "subharm_tension", InvalidMetric}

\* biotuner.metrics.dyad_similarity given an infinite ratio (a numpy division
\* by a zero frequency): what the external routine may do
DyadOnInfinity == {"value", "OverflowError", "ZeroDivisionError"}

\* lines 669-672: dyad_similarity(larger / smaller) of two unequal
\* frequencies; numpy floats divide by zero without raising, so a zero
\* smaller frequency hands an infinite ratio to dyad_similarity
dyad_of_ratio(f1, f2, outcome) ==
    LET larger == IF f1 > f2 THEN f1 ELSE f2
        smaller == IF f1 > f2 THEN f2 ELSE f1
    IN IF smaller # 0 \/ outcome = "value"
       THEN [error |-> "none",
             value |-> Term("dyad_similarity", <<>>, << <<larger, smaller>> >>)]
       ELSE [error |-> outcome, value |-> Zero]

\* lines 667-682 for one (i, imf): the new value of harmonicity[i, imf] and
\* the exception that leaves the function, if any
harmonicity_cell(m, f1, f2, outcome) ==
    IF m = "harmsim"
    THEN IF f1 = f2 THEN [error |-> "none", value |-> Zero]
         ELSE LET r == dyad_of_ratio(f1, f2, outcome)
              IN IF r.error = "ZeroDivisionError"
                 THEN [error |-> "none", value |-> Zero]
                 ELSE r
    ELSE IF m = "subharm_tension"
    THEN [error |-> "none",
          value |-> Term("subharm_tension", <<>>, << <<f1, f2>> >>)]
    ELSE [error |-> "none", value |-> Zero]

\* the (i, imf) cells in loop order (lines 665-666)
EMDCells == Product(Range(em_shape[1]), Range(em_shape[2]))

EMInit ==
    /\ em_pc = "idle"
    /\ em_method = "harmsim"
    /\ em_shape = <<0, 0>>
    /\ em_k = 0
    /\ IF1 = <<>>
    /\ IF2 = <<>>
    /\ em_harmonicity = <<>>
    /\ em_error = "none"

\* lines 660-663: the decomposition of both series and the array of zeros
EMD_time_resolved_harmonicity_begin ==
    /\ em_pc = "idle"
    /\ \E m \in EMDMethods, ns \in 0..MaxEMDCells, nm \in 0..MaxEMDCells :
          /\ ns * nm <= MaxEMDCells
          /\ em_method' = m
          /\ em_shape' = <<ns, nm>>
          /\ em_harmonicity' = [c \in (0..(ns - 1)) \X (0..(nm - 1)) |-> Zero]
    /\ em_k' = 0
    /\ em_pc' = "loop"
    /\ UNCHANGED <<IF1, IF2, em_error>>
    /\ UNCHANGED <<hc_vars, tr_vars, fdr_vars, pk_vars, tc_vars, bj_vars, iv_vars, rc_vars>>

\* lines 665-682: one (i, imf) of the loop
EMD_time_resolved_harmonicity_cell ==
    /\ em_pc = "loop"
    /\ em_k < Len(EMDCells)
    /\ \E f1 \in IFValues, f2 \in IFValues, outcome \in DyadOnInfinity :
          LET c == EMDCells[em_k + 1]
              r == harmonicity_cell(em_method, f1, f2, outcome)
          IN /\ IF1' = Append(IF1, f1)
             /\ IF2' = Append(IF2, f2)
             /\ IF r.error # "none"
                THEN /\ em_pc' = "failed"
                     /\ em_error' = r.error
                     /\ UNCHANGED em_harmonicity
                ELSE /\ em_harmonicity' = [em_harmonicity EXCEPT ![c] = r.value]
                     /\ UNCHANGED <<em_pc, em_error>>
    /\ em_k' = em_k + 1
    /\ UNCHANGED <<em_method, em_shape>>
    /\ UNCHANGED <<hc_vars, tr_vars, fdr_vars, pk_vars, tc_vars, bj_vars, iv_vars, rc_vars>>

\* line 683: return em_harmonicity
EMD_time_resolved_harmonicity_return ==
    /\ em_pc = "loop"
    /\ em_k = Len(EMDCells)
    /\ em_pc' = "done"
    /\ UNCHANGED <<em_method, em_shape, em_k, IF1, IF2, em_harmonicity, em_error>>
    /\ UNCHANGED <<hc_vars, tr_vars, fdr_vars, pk_vars, tc_vars, bj_vars, iv_vars, rc_vars>>

EMNext ==
    \/ EMD_time_resolved_harmonicity_begin
    \/ EMD_time_resolved_harmonicity_cell
    \/ EMD_time_resolved_harmonicity_return

-----------------------------------------------------------------------------
(* transitional_connectivity (lines 330-392) *)

\* at most this many channels in a data set
MaxTCChannels == 2

\* the sampling frequencies considered (Hz)
SfValues == {100, 200}

\* an argument left at its default (None)
None == 0

\* a data set: which one it is and how many channels it has
DataSet(id, n) == [id |-> id, n |-> n]
NoData == DataSet(None, 0)

\* what the call returns: the input handed to temporal_correlation_fdr (whose
\* two matrices are its first two results) and the stacked series
Returned(fdr_input, subharm) ==
    [parts |-> 3, fdr_input |-> fdr_input, subharm |-> subharm]
NothingReturned == [parts |-> 0, fdr_input |-> <<>>, subharm |-> <<>>]

\* the sampling frequency handed to transitional_harmony (line 378)
sf_passed == self_sf

\* lines 378-388: the transitional-harmony series of channel elec of the
\* data in effect, computed at sampling frequency rate
compute_trans_harmony(elec, rate, d) ==
    Term("trans_subharm", <<elec>>, << <<rate, d.id>> >>)

TCIdle ==
    /\ tc_pc = "idle"
    /\ sf = None
    /\ tc_data = NoData
    /\ trans_subharm_tot = <<>>
    /\ tc_returned = NothingReturned

TCInit ==
    /\ self_sf \in SfValues
    /\ \E n \in 0..MaxTCChannels : self_data = DataSet(1, n)
    /\ TCIdle

\* lines 371-376: the arguments, defaulted from the instance when None
transitional_connectivity_begin ==
    /\ tc_pc = "idle"
    /\ \E sf_arg \in SfValues \cup {None},
          data_arg \in {NoData} \cup {DataSet(2, n) : n \in 0..MaxTCChannels} :
          /\ sf' = IF sf_arg = None THEN self_sf ELSE sf_arg
          /\ tc_data' = IF data_arg = NoData THEN self_data ELSE data_arg
    /\ trans_subharm_tot' = <<>>
    /\ tc_pc' = "loop"
    /\ UNCHANGED <<self_sf, self_data, tc_returned>>
    /\ UNCHANGED <<hc_vars, tr_vars, fdr_vars, pk_vars, em_vars, bj_vars, iv_vars, rc_vars>>

\* lines 377-389: the series of one channel is computed and appended
transitional_connectivity_channel ==
    /\ tc_pc = "loop"
    /\ Len(trans_subharm_tot) < tc_data.n
    /\ trans_subharm_tot' =
          Append(trans_subharm_tot,
                 compute_trans_harmony(Len(trans_subharm_tot), sf_passed, tc_data))
    /\ UNCHANGED <<tc_pc, self_sf, self_data, sf, tc_data, tc_returned>>
    /\ UNCHANGED <<hc_vars, tr_vars, fdr_vars, pk_vars, em_vars, bj_vars, iv_vars, rc_vars>>

\* lines 390-392: the series are stacked, correlated and returned
transitional_connectivity_return ==
    /\ tc_pc = "loop"
    /\ Len(trans_subharm_tot) = tc_data.n
    /\ tc_returned' = Returned(trans_subharm_tot, trans_subharm_tot)
    /\ tc_pc' = "done"
    /\ UNCHANGED <<self_sf, self_data, sf, tc_data, trans_subharm_tot>>
    /\ UNCHANGED <<hc_vars, tr_vars, fdr_vars, pk_vars, em_vars, bj_vars, iv_vars, rc_vars>>

TCNext ==
    \/ transitional_connectivity_begin
    \/ transitional_connectivity_channel
    \/ transitional_connectivity_return

-----------------------------------------------------------------------------
(* rhythm_construction.bjorklund (lines 278-342) *)

\* at most this many steps (and pulses) in a pattern
MaxSteps == 8

RECURSIVE Repeat(_, _)
\* the list s repeated n times
Repeat(s, n) == IF n <= 0 THEN <<>> ELSE s \o Repeat(s, n - 1)

RECURSIVE build_LevelsSwapped(_, _, _)
\* a faulty variant: the repeated part recurses to lvl - 2 and the remainder
\* part to lvl - 1
build_LevelsSwapped(cnts, rems, lvl) ==
    IF lvl = -1 THEN <<0>>
    ELSE IF lvl = -2 THEN <<1>>
    ELSE Repeat(build_LevelsSwapped(cnts, rems, lvl - 2), cnts[lvl + 1])
         \o (IF rems[lvl + 1] # 0
             THEN build_LevelsSwapped(cnts, rems, lvl - 1) ELSE <<>>)

RECURSIVE build(_, _, _)
\* lines 328-337: what build(lvl) appends to pattern, given the counts and
\* remainders lists (Python index k is position k + 1)
build(cnts, rems, lvl) ==
    IF lvl = -1 THEN <<0>>
    ELSE IF lvl = -2 THEN <<1>>
    ELSE Repeat(build(cnts, rems, lvl - 1), cnts[lvl + 1])
         \o (IF rems[lvl + 1] # 0 THEN build(cnts, rems, lvl - 2) ELSE <<>>)

\* pattern.index(1) as a position 1..Len, 0 when there is no 1
index(p, x) ==
    IF \E k \in 1..Len(p) : p[k] = x
    THEN CHOOSE k \in 1..Len(p) : p[k] = x /\ \A q \in 1..(k - 1) : p[q] # x
    ELSE 0

\* a faulty variant: the pattern is returned as built, without rotation
rotate_None(p, k) == p

\* line 341: pattern[i:] + pattern[0:i], i being position k
rotate(p, k) == SubSeq(p, k, Len(p)) \o SubSeq(p, 1, k - 1)

BJIdle ==
    /\ bj_pc = "idle"
    /\ counts = <<>>
    /\ remainders = <<>>
    /\ divisor = 0
    /\ level = 0
    /\ pattern = <<>>
    /\ bj_error = "none"

BJInit ==
    /\ steps \in 0..MaxSteps
    /\ pulses \in 0..MaxSteps
    /\ BJIdle

\* lines 309-318: the argument check and the initial lists
bjorklund_begin ==
    /\ bj_pc = "idle"
    /\ IF pulses > steps
       THEN /\ bj_pc' = "failed"
            /\ bj_error' = "ValueError"
            /\ UNCHANGED <<counts, remainders, divisor, level, pattern>>
       ELSE /\ pattern' = <<>>
            /\ counts' = <<>>
            /\ remainders' = <<pulses>>
            /\ divisor' = steps - pulses
            /\ level' = 0
            /\ bj_pc' = "loop"
            /\ UNCHANGED bj_error
    /\ UNCHANGED <<steps, pulses>>
    /\ UNCHANGED <<hc_vars, tr_vars, fdr_vars, pk_vars, em_vars, tc_vars, iv_vars, rc_vars>>

\* a faulty variant: the loop is left only on a remainder of exactly 1
loop_break_OnlyOnOne(r) == r = 1

\* lines 324-325: the exit test of the while loop
loop_break(r) == r <= 1

\* lines 319-325: one round of the while loop; dividing by a remainder of 0
\* raises ZeroDivisionError
bjorklund_level ==
    /\ bj_pc = "loop"
    /\ IF remainders[level + 1] = 0
       THEN /\ bj_pc' = "failed"
            /\ bj_error' = "ZeroDivisionError"
            /\ UNCHANGED <<counts, remainders, divisor, level>>
       ELSE /\ counts' = Append(counts, divisor \div remainders[level + 1])
            /\ remainders' = Append(remainders, divisor % remainders[level + 1])
            /\ divisor' = remainders[level + 1]
            /\ level' = level + 1
            /\ bj_pc' = IF loop_break(divisor % remainders[level + 1])
                        THEN "build" ELSE "loop"
            /\ UNCHANGED bj_error
    /\ UNCHANGED <<steps, pulses, pattern>>
    /\ UNCHANGED <<hc_vars, tr_vars, fdr_vars, pk_vars, em_vars, tc_vars, iv_vars, rc_vars>>

\* lines 326-342: the last count, the recursive build, the rotation to the
\* first 1 and the return; pattern.index(1) raises ValueError without a 1
bjorklund_build ==
    /\ bj_pc = "build"
    /\ counts' = Append(counts, divisor)
    /\ LET built == build(Append(counts, divisor), remainders, level)
           i == index(built, 1)
       IN IF i = 0
          THEN /\ pattern' = built
               /\ bj_pc' = "failed"
               /\ bj_error' = "ValueError"
          ELSE /\ pattern' = rotate(built, i)
               /\ bj_pc' = "done"
               /\ UNCHANGED bj_error
    /\ UNCHANGED <<steps, pulses, remainders, divisor, level>>
    /\ UNCHANGED <<hc_vars, tr_vars, fdr_vars, pk_vars, em_vars, tc_vars, iv_vars, rc_vars>>

BJNext ==
    \/ bjorklund_begin
    \/ bjorklund_level
    \/ bjorklund_build

-----------------------------------------------------------------------------
(* interval_vector (lines 247-275), interval_vec_to_string (345-370) and   *)
(* euclid_long_to_short (416-438) of rhythm_construction                   *)

\* at most this many steps in the pattern
MaxPatternLen == 5

RECURSIVE str(_)
\* str(n) for n >= 0: the decimal digits, as a list of characters
str(n) ==
    LET digit == <<"0", "1", "2", "3", "4", "5", "6", "7", "8", "9">>
    IN IF n < 10 THEN <<digit[n + 1]>>
       ELSE str(n \div 10) \o <<digit[(n % 10) + 1]>>

RECURSIVE sum(_)
sum(v) == IF v = <<>> THEN 0 ELSE Head(v) + sum(Tail(v))

\* line 270: the 1-based positions of the ones, ascending
RECURSIVE indexes(_, _)
indexes(p, k) ==
    IF k > Len(p) THEN <<>>
    ELSE (IF p[k] = 1 THEN <<k>> ELSE <<>>) \o indexes(p, k + 1)

\* lines 270-274: the differences of consecutive positions, then
\* len(euclid) + 1 minus the last position
interval_vector(p) ==
    LET idx == indexes(p, 1)
        length == Len(p) + 1
    IN [k \in 1..(Len(idx) - 1) |-> idx[k + 1] - idx[k]]
       \o <<length - idx[Len(idx)]>>

\* line 369: "E(" + str(len(i)) + "," + str(sum(i)) + ")"
interval_vec_to_string(interval_vectors) ==
    [k \in 1..Len(interval_vectors) |->
        <<"E", "(">> \o str(Len(interval_vectors[k])) \o <<",">>
        \o str(sum(interval_vectors[k])) \o <<")">>]

\* lines 436-438: [hits, steps]
euclid_long_to_short(p) == <<Cardinality({k \in 1..Len(p) : p[k] = 1}), Len(p)>>

IVIdle ==
    /\ iv_pc = "idle"
    /\ vector = <<>>
    /\ strings = <<>>
    /\ short = <<>>
    /\ iv_error = "none"

IVInit ==
    /\ euclid \in SeqsUpTo({0, 1}, MaxPatternLen)
    /\ IVIdle

\* interval_vector(euclid); indexes[-1] of an empty list raises IndexError
interval_vector_call ==
    /\ iv_pc = "idle"
    /\ IF indexes(euclid, 1) = <<>>
       THEN /\ iv_pc' = "failed"
            /\ iv_error' = "IndexError"
            /\ UNCHANGED vector
       ELSE /\ vector' = interval_vector(euclid)
            /\ iv_pc' = "vector"
            /\ UNCHANGED iv_error
    /\ UNCHANGED <<euclid, strings, short>>
    /\ UNCHANGED <<hc_vars, tr_vars, fdr_vars, pk_vars, em_vars, tc_vars, bj_vars, rc_vars>>

\* interval_vec_to_string([vector])
interval_vec_to_string_call ==
    /\ iv_pc = "vector"
    /\ strings' = interval_vec_to_string(<<vector>>)
    /\ iv_pc' = "string"
    /\ UNCHANGED <<euclid, vector, short, iv_error>>
    /\ UNCHANGED <<hc_vars, tr_vars, fdr_vars, pk_vars, em_vars, tc_vars, bj_vars, rc_vars>>

\* euclid_long_to_short(euclid)
euclid_long_to_short_call ==
    /\ iv_pc = "string"
    /\ short' = euclid_long_to_short(euclid)
    /\ iv_pc' = "done"
    /\ UNCHANGED <<euclid, vector, strings, iv_error>>
    /\ UNCHANGED <<hc_vars, tr_vars, fdr_vars, pk_vars, em_vars, tc_vars, bj_vars, rc_vars>>

IVNext ==
    \/ interval_vector_call
    \/ interval_vec_to_string_call
    \/ euclid_long_to_short_call

-----------------------------------------------------------------------------
(* scale2euclid and binome2euclid (rhythm_construction.py).  A float ratio *)
(* is a pair <<p, q>> of positive integers in lowest terms, the value p/q.  *)

MaxTerm == 3
MaxScaleLen == 2
MaxStepsDown == 2

\* the ratios a scale or a binome is made of
Ratios == {r \in (1..MaxTerm) \X (1..MaxTerm) : gcd(r[1], r[2]) = 1}

Modes == {"normal", "full", "other"}

Abs(x) == IF x < 0 THEN -x ELSE x

RECURSIVE Power(_, _)
Power(x, k) == IF k <= 0 THEN 1 ELSE x * Power(x, k - 1)

\* the fractions a/b in lowest terms with b <= maxdenom around the value x
Fractions(x, maxdenom) ==
    {c \in (0..((x[1] \div x[2] + 1) * maxdenom)) \X (1..maxdenom) :
        gcd(c[1], c[2]) = 1}

\* |x - c| <= |x - d| for fractions c, d and a ratio x
NoFurther(x, c, d) ==
    Abs(x[1] * c[2] - c[1] * x[2]) * d[2] <= Abs(x[1] * d[2] - d[1] * x[2]) * c[2]

\* Fraction(x).limit_denominator(maxdenom): the fraction with a denominator
\* of at most maxdenom closest to x; of two equally close fractions the one
\* with the smaller denominator, then the smaller one
limit_denominator(x, maxdenom) ==
    CHOOSE c \in Fractions(x, maxdenom) :
        \A d \in Fractions(x, maxdenom) :
            /\ NoFurther(x, c, d)
            /\ NoFurther(x, d, c) =>
                  \/ c[2] < d[2]
                  \/ c[2] = d[2] /\ c[1] <= d[1]

\* scale2frac(scale, maxdenom): every step of the scale approximated by a
\* fraction of bounded denominator, as <<numerators, denominators>>
scale2frac(s, maxdenom) ==
    << [k \in 1..Len(s) |-> limit_denominator(s[k], maxdenom)[1]],
       [k \in 1..Len(s) |-> limit_denominator(s[k], maxdenom)[2]] >>

\* the outcome of a call: the returned pattern, or the exception raised
Pattern(p) == [error |-> "none", pattern |-> p]
Raises(x) == [error |-> x, pattern |-> <<>>]

RECURSIVE remainder_loop(_, _, _, _)
\* lines 319-325: the while loop from the given state on, as the lists and
\* the level it ends with; dividing by a remainder of 0 raises
remainder_loop(cnts, rems, dvsr, lvl) ==
    IF rems[lvl + 1] = 0
    THEN [error |-> "ZeroDivisionError", counts |-> cnts, remainders |-> rems,
          divisor |-> dvsr, level |-> lvl]
    ELSE IF loop_break(dvsr % rems[lvl + 1])
    THEN [error |-> "none",
          counts |-> Append(cnts, dvsr \div rems[lvl + 1]),
          remainders |-> Append(rems, dvsr % rems[lvl + 1]),
          divisor |-> rems[lvl + 1], level |-> lvl + 1]
    ELSE remainder_loop(Append(cnts, dvsr \div rems[lvl + 1]),
                        Append(rems, dvsr % rems[lvl + 1]),
                        rems[lvl + 1], lvl + 1)

\* lines 309-342: bjorklund(steps, pulses) as one call
bjorklund(s, p) ==
    IF p > s THEN Raises("ValueError")
    ELSE LET r == remainder_loop(<<>>, <<p>>, s - p, 0)
         IN IF r.error # "none" THEN Raises(r.error)
            ELSE LET built == build(Append(r.counts, r.divisor), r.remainders, r.level)
                     i == index(built, 1)
                 IN IF i = 0 THEN Raises("ValueError")
                    ELSE Pattern(rotate(built, i))

\* lines 66-71: the patterns one fraction adds in mode 'normal'; an exception
\* of bjorklund is swallowed
normal_patterns(n, d, maxdenom) ==
    IF d <= maxdenom
    THEN IF bjorklund(n, d).error = "none" THEN <<bjorklund(n, d).pattern>> ELSE <<>>
    ELSE <<>>

\* lines 73-80: the patterns one fraction adds in mode 'full'.  The loop
\* reads 'for d, n in zip(num, denom)': d is the numerator, n the denominator
full_patterns(d, n, maxdenom) ==
    IF d <= maxdenom
    THEN IF bjorklund(d * n, d).error # "none" THEN <<>>
         ELSE IF bjorklund(d * n, n).error # "none"
              THEN <<bjorklund(d * n, d).pattern>>
              ELSE <<bjorklund(d * n, d).pattern, bjorklund(d * n, n).pattern>>
    ELSE <<>>

\* lines 104-114: invert_ratio as <<frac, inverted_ratio>>; the ratio is
\* divided into 1 once, then n_steps_down - 1 more times
invert_ratio(ratio, n, limit) ==
    LET k == IF n >= 1 THEN n ELSE 1
        inverted_ratio == <<Power(ratio[2], k), Power(ratio[1], k)>>
    IN <<limit_denominator(inverted_ratio, limit), inverted_ratio>>

\* lines 150-165: the patterns of binome2euclid for steps and two pulse
\* counts; an exception of bjorklund ends the try block
try_patterns(s, p1, p2) ==
    IF bjorklund(s, p1).error # "none" THEN <<>>
    ELSE IF bjorklund(s, p2).error # "none"
         THEN <<bjorklund(s, p1).pattern>>
         ELSE <<bjorklund(s, p1).pattern, bjorklund(s, p2).pattern>>

RCIdle ==
    /\ rc_pc = "idle"
    /\ rc_num = <<>>
    /\ denom = <<>>
    /\ rc_k = 0
    /\ euclid_patterns = <<>>
    /\ appended = <<>>
    /\ inverted = <<>>
    /\ new_denom = 0
    /\ b2e_returned = <<>>

S2EUnused == s2e_scale = <<>> /\ max_denom = 0 /\ mode = "normal"
B2EUnused == binome = <<>> /\ n_steps_down = 0 /\ limit_denom = 0

S2EInit ==
    /\ s2e_scale \in SeqsUpTo(Ratios, MaxScaleLen)
    /\ max_denom \in 1..MaxTerm
    /\ mode \in Modes
    /\ RCIdle

B2EInit ==
    /\ binome \in Ratios \X Ratios
    /\ n_steps_down \in 0..MaxStepsDown
    /\ limit_denom \in 1..MaxTerm
    /\ RCIdle

\* lines 63-64: the empty list and the fractions of the scale
scale2euclid_begin ==
    /\ rc_pc = "idle"
    /\ rc_num' = scale2frac(s2e_scale, max_denom)[1]
    /\ denom' = scale2frac(s2e_scale, max_denom)[2]
    /\ euclid_patterns' = <<>>
    /\ appended' = <<>>
    /\ rc_k' = 1
    /\ rc_pc' = "loop"
    /\ UNCHANGED <<s2e_scale, max_denom, mode>>
    /\ UNCHANGED <<binome, n_steps_down, limit_denom, inverted, new_denom, b2e_returned>>
    /\ UNCHANGED <<hc_vars, tr_vars, fdr_vars, pk_vars, em_vars, tc_vars, bj_vars, iv_vars>>

\* lines 65-80: one fraction of zip(num, denom) in the loop of the mode; any
\* other mode runs no loop
scale2euclid_fraction ==
    /\ rc_pc = "loop"
    /\ rc_k <= Len(rc_num)
    /\ \E new \in {IF mode = "normal"
                   THEN normal_patterns(rc_num[rc_k], denom[rc_k], max_denom)
                   ELSE IF mode = "full"
                   THEN full_patterns(rc_num[rc_k], denom[rc_k], max_denom)
                   ELSE <<>>} :
          /\ euclid_patterns' = euclid_patterns \o new
          /\ appended' = Append(appended, new)
    /\ rc_k' = rc_k + 1
    /\ UNCHANGED <<rc_pc, s2e_scale, max_denom, mode, rc_num, denom>>
    /\ UNCHANGED <<binome, n_steps_down, limit_denom, inverted, new_denom, b2e_returned>>
    /\ UNCHANGED <<hc_vars, tr_vars, fdr_vars, pk_vars, em_vars, tc_vars, bj_vars, iv_vars>>

\* line 81: return euclid_patterns
scale2euclid_return ==
    /\ rc_pc = "loop"
    /\ rc_k > Len(rc_num)
    /\ rc_pc' = "done"
    /\ UNCHANGED <<s2e_scale, max_denom, mode, rc_num, denom, rc_k, euclid_patterns, appended>>
    /\ UNCHANGED <<binome, n_steps_down, limit_denom, inverted, new_denom, b2e_returned>>
    /\ UNCHANGED <<hc_vars, tr_vars, fdr_vars, pk_vars, em_vars, tc_vars, bj_vars, iv_vars>>

S2ENext ==
    \/ scale2euclid_begin
    \/ scale2euclid_fraction
    \/ scale2euclid_return

\* lines 143-149: the two inverted ratios and their fractions
binome2euclid_begin ==
    /\ rc_pc = "idle"
    /\ binome # <<>>
    /\ \E inv \in {<<invert_ratio(binome[1], n_steps_down, limit_denom),
                     invert_ratio(binome[2], n_steps_down, limit_denom)>>} :
          /\ inverted' = inv
          /\ rc_num' = scale2frac(<<inv[1][2], inv[2][2]>>, limit_denom)[1]
          /\ denom' = scale2frac(<<inv[1][2], inv[2][2]>>, limit_denom)[2]
    /\ euclid_patterns' = <<>>
    /\ rc_pc' = "patterns"
    /\ UNCHANGED <<binome, n_steps_down, limit_denom, new_denom, b2e_returned>>
    /\ UNCHANGED <<s2e_scale, max_denom, mode, rc_k, appended>>
    /\ UNCHANGED <<hc_vars, tr_vars, fdr_vars, pk_vars, em_vars, tc_vars, bj_vars, iv_vars>>

\* lines 150-165: the common number of steps and the two patterns
binome2euclid_patterns ==
    /\ rc_pc = "patterns"
    /\ IF denom[1] # denom[2]
       THEN /\ new_denom' = denom[1] * denom[2]
            /\ euclid_patterns' = try_patterns(denom[1] * denom[2],
                                               rc_num[1] * denom[2], rc_num[2] * denom[1])
       ELSE /\ new_denom' = denom[1]
            /\ euclid_patterns' = try_patterns(denom[1], rc_num[1], rc_num[2])
    /\ rc_pc' = "return"
    /\ UNCHANGED <<binome, n_steps_down, limit_denom, inverted, rc_num, denom, b2e_returned>>
    /\ UNCHANGED <<s2e_scale, max_denom, mode, rc_k, appended>>
    /\ UNCHANGED <<hc_vars, tr_vars, fdr_vars, pk_vars, em_vars, tc_vars, bj_vars, iv_vars>>

\* lines 167-171: the returned tuple
binome2euclid_return ==
    /\ rc_pc = "return"
    /\ b2e_returned' = << euclid_patterns,
                          <<inverted[1][1], inverted[2][1]>>,
                          << <<rc_num[1] * denom[2], new_denom>>,
                             <<rc_num[2] * denom[1], new_denom>> >> >>
    /\ rc_pc' = "done"
    /\ UNCHANGED <<binome, n_steps_down, limit_denom, inverted, rc_num, denom,
                   new_denom, euclid_patterns>>
    /\ UNCHANGED <<s2e_scale, max_denom, mode, rc_k, appended>>
    /\ UNCHANGED <<hc_vars, tr_vars, fdr_vars, pk_vars, em_vars, tc_vars, bj_vars, iv_vars>>

B2ENext ==
    \/ binome2euclid_begin
    \/ binome2euclid_patterns
    \/ binome2euclid_return

-----------------------------------------------------------------------------
(* Specifications *)

HCUnused == data = 0 /\ peaks = <<>> /\ HCIdle
TRUnused == num_electrodes = 0 /\ numDataPoints = 0 /\ TRIdle
FDRUnused == series = <<>> /\ FDRIdle

PKUnused == bt1_peaks = <<>> /\ bt2_peaks = <<>> /\ PKIdle

IVUnused == euclid = <<>> /\ IVIdle
BJUnused == steps = 0 /\ pulses = 0 /\ BJIdle
TCUnused == self_sf = None /\ self_data = NoData /\ TCIdle
RCUnused == S2EUnused /\ B2EUnused /\ RCIdle

InitHC == HCInit /\ TRUnused /\ FDRUnused /\ PKUnused /\ EMInit /\ TCUnused /\ BJUnused /\ IVUnused /\ RCUnused
InitTR == TRInit /\ HCUnused /\ FDRUnused /\ PKUnused /\ EMInit /\ TCUnused /\ BJUnused /\ IVUnused /\ RCUnused
InitFDR == FDRInit /\ HCUnused /\ TRUnused /\ PKUnused /\ EMInit /\ TCUnused /\ BJUnused /\ IVUnused /\ RCUnused
InitPK == PKInit /\ HCUnused /\ TRUnused /\ FDRUnused /\ EMInit /\ TCUnused /\ BJUnused /\ IVUnused /\ RCUnused
InitEM == EMInit /\ HCUnused /\ TRUnused /\ FDRUnused /\ PKUnused /\ TCUnused /\ BJUnused /\ IVUnused /\ RCUnused
InitTC == TCInit /\ HCUnused /\ TRUnused /\ FDRUnused /\ PKUnused /\ EMInit /\ BJUnused /\ IVUnused /\ RCUnused
InitBJ == BJInit /\ HCUnused /\ TRUnused /\ FDRUnused /\ PKUnused /\ EMInit /\ TCUnused /\ IVUnused /\ RCUnused
InitIV == IVInit /\ HCUnused /\ TRUnused /\ FDRUnused /\ PKUnused /\ EMInit /\ TCUnused /\ BJUnused /\ RCUnused
InitS2E == S2EInit /\ B2EUnused /\ HCUnused /\ TRUnused /\ FDRUnused /\ PKUnused /\ EMInit /\ TCUnused /\ BJUnused /\ IVUnused
InitB2E == B2EInit /\ S2EUnused /\ HCUnused /\ TRUnused /\ FDRUnused /\ PKUnused /\ EMInit /\ TCUnused /\ BJUnused /\ IVUnused

SpecHC == InitHC /\ [][HCNext]_vars
SpecTR == InitTR /\ [][TRNext]_vars
SpecFDR == InitFDR /\ [][FDRNext]_vars
SpecPK == InitPK /\ [][PKNext]_vars
SpecEM == InitEM /\ [][EMNext]_vars
SpecTC == InitTC /\ [][TCNext]_vars
SpecBJ == InitBJ /\ [][BJNext]_vars
SpecIV == InitIV /\ [][IVNext]_vars
SpecS2E == InitS2E /\ [][S2ENext]_vars
SpecB2E == InitB2E /\ [][B2ENext]_vars

-----------------------------------------------------------------------------
(* Claims about compute_harm_connectivity, checked under SpecHC *)

\* the call is past its set-up
HCRunning == hc_pc \in {"loop", "done", "failed"}

\* cell (i, j) of the returned matrix
Cell(i, j) == returned.cells[<<i, j>>]

Channels == 0..(data - 1)

\* C1: for every scalar metric the pair loop accumulates exactly one result
\* per ordered channel pair, in enumeration order over the n x n product,
\* and cell (i, j) of the returned matrix is the metric value of channel i
\* (first) and channel j (second).
C1_OneResultPerPair ==
    (HCRunning /\ metric \in ScalarMetrics) =>
        /\ hc_pc = "loop" =>
              /\ Len(harm_conn_matrix) = e
              /\ \A k \in 1..e :
                    harm_conn_matrix[k] =
                       MetricValue(metric, PairList(data)[k][1], PairList(data)[k][2])
        /\ error # "IndexError"
        /\ hc_pc = "done" =>
              /\ returned.kind = "matrix"
              /\ \A i, j \in Channels : Cell(i, j) = MetricValue(metric, i, j)

\* C1 for the scalar metrics other than MI (holds; MI alone breaks C1)
C1_ExceptMI == metric # "MI" => C1_OneResultPerPair

\* C2: with metric MI, cell (i, j) of the returned matrix is the mean of the
\* mutual-information values over all |peaks_i| x |peaks_j| cross-pairs of
\* peaks of channels i and j.
C2_MIMeanOverCrossPairs ==
    (hc_pc = "done" /\ metric = "MI") =>
        \A i, j \in Channels :
            Cell(i, j) = Term("mean_MI", <<i, j>>, Product(peaks[i], peaks[j]))

\* C3: a metric string that is not a recognized tag makes the call fail with
\* a configuration error before any channel pair is processed (no peak
\* extraction runs), and the call never completes.
C3_InvalidMetricRejected ==
    (HCRunning /\ metric = InvalidMetric) =>
        /\ extractions = 0
        /\ hc_pc # "done"
        /\ hc_pc = "failed" => error = "ConfigurationError"

\* C4: for a peak-based metric, when a channel has an empty peak set the call
\* does not raise, every cell of a pair with that channel holds the sentinel
\* and every cell holds the value computed for its own pair.
C4_EmptyPeaksGiveSentinel ==
    (HCRunning /\ metric \in PeakMetrics /\ \E c \in Channels : peaks[c] = <<>>) =>
        /\ error # "IndexError"
        /\ hc_pc = "done" =>
              \A i, j \in Channels :
                  /\ Cell(i, j) = MetricValue(metric, i, j)
                  /\ (peaks[i] = <<>> \/ peaks[j] = <<>>) => IsSentinel(Cell(i, j))

C14_MultibandTensorFilled ==
    (HCRunning /\ metric = "wPLI_multiband") =>
        /\ DOMAIN harm_conn_tensor = (1..FREQ_BANDS) \X Channels \X Channels
        /\ \E pairs \in {PairList(data)} :
              \A b \in 1..FREQ_BANDS, k \in 1..Len(pairs) :
                 harm_conn_tensor[<<b, pairs[k][1], pairs[k][2]>>] =
                    IF k <= e
                    THEN Term("wPLI_band", <<pairs[k][1], pairs[k][2]>>, << <<b>> >>)
                    ELSE Zero
        /\ hc_pc = "done" =>
              /\ e = Len(PairList(data))
              /\ returned = Matrix("tensor", harm_conn_tensor)
              /\ \A c \in DOMAIN returned.cells : returned.cells[c] # Zero

\* a returned tensor of two bands over two channels
C14_Witness ==
    /\ hc_pc = "done"
    /\ metric = "wPLI_multiband"
    /\ FREQ_BANDS = 2
    /\ data = 2
    /\ returned.cells[<<2, 0, 1>>] # returned.cells[<<2, 1, 0>>]
    /\ returned.cells[<<2, 0, 1>>] # returned.cells[<<1, 0, 1>>]

\* C15: with wPLI_multiband the peak provider is never invoked during
\* compute_harm_connectivity.
C15_MultibandNoPeakExtraction ==
    (HCRunning /\ metric = "wPLI_multiband") => extractions = 0

-----------------------------------------------------------------------------
(* Claims about compute_time_resolved_harm_connectivity, under SpecTR *)

Electrodes == 0..(num_electrodes - 1)

\* C6: EMD_time_resolved_harmonicity runs exactly once for each unordered
\* pair i < j (given at least one mode and one sample), never for another
\* key, and never again once the pair is cached; cache keys satisfy i < j.
C6_OneDecompositionPerPair ==
    tr_pc \in {"loop", "done"} =>
        /\ \A p \in Electrodes \X Electrodes :
              /\ emd_calls[p] <= 1
              /\ emd_calls[p] = 1 <=> p \in DOMAIN harmonicity_cache
        /\ \A p \in DOMAIN harmonicity_cache : p[1] < p[2]
        /\ (tr_pc = "done" /\ nIMFs >= 1 /\ numDataPoints >= 1) =>
              \A i, j \in Electrodes :
                  emd_calls[<<i, j>>] = IF i < j THEN 1 ELSE 0

\* three pairs, each read for four (mode, sample) cells and computed once
C6_Witness ==
    /\ tr_pc = "done"
    /\ num_electrodes = 3
    /\ nIMFs = 2
    /\ numDataPoints = 2
    /\ \A i, j \in Electrodes : i < j => emd_calls[<<i, j>>] = 1

\* C7: the returned tensor is symmetric in its channel axes, and for i < j
\* cells (m, t, i, j) and (m, t, j, i) both equal entry [t, m] of the
\* harmonicity array of the pair (i, j).
C7_SymmetricTensor ==
    tr_pc = "done" =>
        \A m \in 0..(nIMFs - 1), t \in 0..(numDataPoints - 1), i, j \in Electrodes :
            /\ connectivity_matrices[<<m, t, i, j>>] = connectivity_matrices[<<m, t, j, i>>]
            /\ i < j =>
                  connectivity_matrices[<<m, t, i, j>>] =
                     EMD_time_resolved_harmonicity(
                        i, j, numDataPoints, nIMFs, tr_metric)[<<t, m>>]

\* a returned tensor with an off-diagonal value written on both sides
C7_Witness ==
    /\ tr_pc = "done"
    /\ num_electrodes >= 2
    /\ nIMFs = 2
    /\ numDataPoints = 2
    /\ tr_metric \in TRMethods
    /\ connectivity_matrices[<<1, 0, 1, 0>>] # Zero
    /\ connectivity_matrices[<<1, 0, 1, 0>>] # connectivity_matrices[<<0, 1, 1, 0>>]

-----------------------------------------------------------------------------
(* Claims about temporal_correlation_fdr, checked under SpecFDR *)

Cells == (0..(NumSeries - 1)) \X (0..(NumSeries - 1))

\* C8: the multiple-comparison correction runs exactly once, only after the
\* raw p-value of every one of the n x n ordered pairs has been computed, on
\* the row-major flattening of all n^2 p-values; the corrected value at
\* cell (i, j) is the corrected value of flattened position i*n + j.
C8_GlobalCorrectionAfterAllPairs ==
    /\ fdr_runs <= 1
    /\ fdr_runs = 1 <=> fdr_pc = "done"
    /\ fdr_runs = 1 => pairs_at_correction = NumSeries * NumSeries
    /\ fdr_pc = "done" =>
          LET n == NumSeries
              flat == [k \in 1..(n * n) |-> pvals_matrix[<<(k - 1) \div n, (k - 1) % n>>]]
          IN \E corrected \in {multipletests(flat)} :
                \A c \in Cells :
                    fdr_corrected_pvals[c] = corrected[c[1] * n + c[2] + 1]

\* two series, four distinct raw p-values positions with (0,1) and (1,0)
\* differing, all corrected together
C8_Witness ==
    /\ fdr_pc = "done"
    /\ NumSeries = 2
    /\ \A c \in Cells : pvals_matrix[c] # NaN
    /\ pvals_matrix[<<0, 1>>] # pvals_matrix[<<1, 0>>]
    /\ fdr_corrected_pvals[<<0, 1>>] # fdr_corrected_pvals[<<1, 0>>]

\* C9: every corrected p-value lies in [0, 1] and is at least the raw
\* p-value of the same cell.
C9_CorrectedWithinUnitAndAboveRaw ==
    fdr_pc = "done" =>
        \A c \in Cells :
            /\ fdr_corrected_pvals[c] >= 0
            /\ fdr_corrected_pvals[c] <= PUnit * PScale(NumSeries * NumSeries)
            /\ fdr_corrected_pvals[c] >= pvals_matrix[c] * PScale(NumSeries * NumSeries)

\* C9 when no raw p-value is NaN (holds)
C9_WhenAllDefined ==
    (fdr_pc = "done" /\ \A c \in Cells : pvals_matrix[c] # NaN)
        => C9_CorrectedWithinUnitAndAboveRaw

\* C10: a pair whose series overlap in fewer than 3 positions has both its
\* correlation cell and its p-value cell marked undefined.
C10_ShortOverlapUndefined ==
    fdr_pc = "done" =>
        \A c \in Cells :
            Cardinality(Overlap(c[1], c[2])) < 3 =>
                /\ IsNaNCorr(connectivity_matrix[c])
                /\ pvals_matrix[c] = NaN
                /\ fdr_corrected_pvals[c] = NaN

-----------------------------------------------------------------------------
(* Claims about the harmsim and RRCi branches, checked under SpecPK *)

\* how often x occurs in the list
CountOf(seq, x) == Cardinality({k \in 1..Len(seq) : seq[k] = x})

\* the two lists hold the same elements the same number of times
SameMultiset(a, b) ==
    /\ Len(a) = Len(b)
    /\ \A k \in 1..Len(a) : CountOf(a, a[k]) = CountOf(b, a[k])

PositivePeaks ==
    /\ \A k \in 1..Len(bt1_peaks) : bt1_peaks[k] > 0
    /\ \A k \in 1..Len(bt2_peaks) : bt2_peaks[k] > 0

\* C11: the larger-over-smaller ratios collected for (peaks1, peaks2) are the
\* same multiset as those collected for (peaks2, peaks1), so the mean of
\* their similarity scores, the harmsim value, is the same in both orders.
C11_HarmsimSymmetric ==
    (pk_pc = "done" /\ pk_metric = "harmsim") =>
        /\ pk_value = Term("mean_harmsim", <<>>, ratios)
        /\ SameMultiset(ratios, harmsim_ratios(bt2_peaks, bt1_peaks))

\* the two orders list three or more ratios in different orders
C11_Witness ==
    /\ pk_pc = "done"
    /\ pk_metric = "harmsim"
    /\ PositivePeaks
    /\ Len(ratios) >= 3
    /\ ratios # harmsim_ratios(bt2_peaks, bt1_peaks)

\* C12: with harmsim the value is the mean over exactly |peaks1| x |peaks2|
\* ratios, the larger-over-smaller ratio of every cross-pair; a cross-pair of
\* equal peaks contributes the ratio 1.
C12_OneRatioPerCrossPair ==
    (pk_pc = "done" /\ pk_metric = "harmsim" /\ PositivePeaks) =>
        /\ Len(ratios) = Len(bt1_peaks) * Len(bt2_peaks)
        /\ \A k \in 1..Len(ratios) :
              LET p == Product(bt1_peaks, bt2_peaks)[k]
              IN ratios[k] = IF p[1] >= p[2] THEN <<p[1], p[2]>> ELSE <<p[2], p[1]>>

\* C13: a zero-valued peak or two equal peaks never end the harmsim or RRCi
\* ratio computation with an error; the pair resolves to a value.
C13_DivisionsGuarded ==
    /\ pk_error = "none"
    /\ pk_pc # "failed"

\* C13 for peak lists without a zero-valued peak (holds: equal peaks alone
\* raise nothing)
C13_WhenNoZeroPeak == PositivePeaks => C13_DivisionsGuarded

-----------------------------------------------------------------------------
(* Claims about the time-resolved computations *)

\* C16: compute_time_resolved_harm_connectivity with a metric other than
\* harmsim or subharm_tension aborts with a configuration error: it never
\* returns a tensor.  (Checked under SpecTR.)
C16_InvalidTimeResolvedMetricAborts ==
    (tr_pc # "idle" /\ tr_metric \notin TRMethods) => tr_pc # "done"

\* C17: in EMD_time_resolved_harmonicity with method harmsim, for every cell
\* processed: if the two instantaneous frequencies are equal or either is
\* zero the harmonicity is 0 and no error is raised; otherwise it is the
\* dyadic similarity of the larger over the smaller.  (Checked under SpecEM.)
C17_SafeEqualOrZeroFrequencies ==
    (em_pc # "idle" /\ em_method = "harmsim") =>
        /\ em_error = "none"
        /\ \A k \in 1..em_k :
              LET f1 == IF1[k]
                  f2 == IF2[k]
                  h == em_harmonicity[EMDCells[k]]
              IN IF f1 = f2 \/ f1 = 0 \/ f2 = 0
                 THEN h = Zero
                 ELSE h = Term("dyad_similarity", <<>>,
                               << <<IF f1 > f2 THEN f1 ELSE f2,
                                    IF f1 > f2 THEN f2 ELSE f1>> >>)

\* C17 for cells whose frequencies are both non-zero (holds: equal
\* frequencies leave the 0, unequal ones give the similarity of their ratio)
C17_WhenNoZeroFrequency ==
    ((\A k \in 1..em_k : IF1[k] # 0 /\ IF2[k] # 0)) => C17_SafeEqualOrZeroFrequencies

-----------------------------------------------------------------------------
(* Claims about transitional_connectivity, checked under SpecTC *)

\* C18: the transitional-harmony series is obtained exactly once per channel
\* of the data in effect, at the sampling frequency in effect (the sf
\* argument when one is passed, otherwise self.sf; likewise for data); the
\* stacked series go to temporal_correlation_fdr and the call returns
\* (correlation matrix, corrected p-value matrix, stacked series).
C18_SeriesPerChannelAtSfInEffect ==
    /\ tc_pc \in {"loop", "done"} =>
          /\ Len(trans_subharm_tot) <= tc_data.n
          /\ \A k \in 1..Len(trans_subharm_tot) :
                trans_subharm_tot[k] = compute_trans_harmony(k - 1, sf, tc_data)
    /\ tc_pc = "done" =>
          /\ Len(trans_subharm_tot) = tc_data.n
          /\ tc_returned = Returned(trans_subharm_tot, trans_subharm_tot)

\* C18 when the sampling frequency in effect is the instance's (holds)
C18_WhenSfIsInstanceSf == sf = self_sf => C18_SeriesPerChannelAtSfInEffect

-----------------------------------------------------------------------------
(* Claims about rhythm_construction *)

\* the number of ones in a binary pattern
Ones(p) == Cardinality({k \in 1..Len(p) : p[k] = 1})

\* C19: for 1 <= pulses <= steps, bjorklund(steps, pulses) raises nothing and
\* returns a binary pattern of length exactly steps with exactly pulses ones
\* whose first element is 1.  (Checked under SpecBJ.)
C19_BjorklundPattern ==
    (bj_pc # "idle" /\ 1 <= pulses /\ pulses <= steps) =>
        /\ bj_error = "none"
        /\ bj_pc # "failed"
        /\ bj_pc = "done" =>
              /\ Len(pattern) = steps
              /\ \A k \in 1..Len(pattern) : pattern[k] \in {0, 1}
              /\ Ones(pattern) = pulses
              /\ pattern[1] = 1

\* the pattern E(3,8), built through two rounds of the loop
C19_Witness ==
    /\ bj_pc = "done"
    /\ steps = 8
    /\ pulses = 3
    /\ level = 2
    /\ pattern = <<1, 0, 0, 1, 0, 0, 1, 0>>

\* C20: for every binary pattern with at least one pulse, interval_vector
\* returns one positive interval per pulse and the intervals sum to the
\* length of the pattern, so interval_vec_to_string of the vector is
\* 'E(hits,steps)' with the hits and steps of euclid_long_to_short of the
\* pattern.  (Checked under SpecIV.)
C20_IntervalsMatchShortForm ==
    (iv_pc = "done" /\ Ones(euclid) >= 1) =>
        /\ Len(vector) = Ones(euclid)
        /\ \A k \in 1..Len(vector) : vector[k] > 0
        /\ sum(vector) = Len(euclid)
        /\ strings = << <<"E", "(">> \o str(short[1]) \o <<",">>
                        \o str(short[2]) \o <<")">> >>

\* C20 for patterns that start with a pulse (holds)
C20_WhenFirstStepIsPulse ==
    (euclid # <<>> /\ euclid[1] = 1) => C20_IntervalsMatchShortForm

-----------------------------------------------------------------------------
(* Further claims about compute_time_resolved_harm_connectivity (SpecTR) *)

\* C22: the diagonal of the tensor is never written: for every mode m,
\* sample t and channel i, cell (m, t, i, i) is 0 at every point of the call
\* and in the returned tensor, and EMD_time_resolved_harmonicity is never
\* invoked (nor cached) for a channel paired with itself.
C22_DiagonalNeverWritten ==
    tr_pc \in {"loop", "done"} =>
        \A i \in Electrodes :
            /\ emd_calls[<<i, i>>] = 0
            /\ <<i, i>> \notin DOMAIN harmonicity_cache
            /\ \A m \in 0..(nIMFs - 1), t \in 0..(numDataPoints - 1) :
                  connectivity_matrices[<<m, t, i, i>>] = Zero

\* a returned tensor of three channels whose off-diagonal cells were written
\* while the diagonal stayed at zero
C22_Witness ==
    /\ tr_pc = "done"
    /\ num_electrodes = 3
    /\ nIMFs >= 1
    /\ numDataPoints >= 1
    /\ tr_metric \in TRMethods
    /\ connectivity_matrices[<<0, 0, 1, 2>>] # Zero
    /\ connectivity_matrices[<<0, 0, 2, 1>>] # Zero
    /\ connectivity_matrices[<<0, 0, 2, 2>>] = Zero

-----------------------------------------------------------------------------
(* Termination of bjorklund.  The function is sequential code: once called, *)
(* its loop rounds and its build step are executed as long as they are      *)
(* enabled, which is weak fairness of the two steps.                        *)

SpecBJFair ==
    /\ InitBJ
    /\ [][BJNext]_vars
    /\ WF_vars(bjorklund_level)
    /\ WF_vars(bjorklund_build)

\* C23: a call bjorklund(steps, pulses) with 1 <= pulses <= steps terminates:
\* the remainder loop leaves on a remainder <= 1 after finitely many rounds,
\* the recursive build finishes, and the call returns its pattern.
C23_BjorklundTerminates ==
    (bj_pc = "loop" /\ 1 <= pulses /\ pulses <= steps) ~> (bj_pc = "done")

\* a returned call that needed more than one round of the remainder loop
C23_Witness ==
    /\ bj_pc = "done"
    /\ 1 <= pulses
    /\ pulses <= steps
    /\ level >= 2
    /\ Len(remainders) = level + 1
    /\ remainders[level + 1] <= 1
    /\ Len(pattern) = steps

-----------------------------------------------------------------------------
(* Evenness of the patterns of bjorklund (SpecBJ) *)

\* the values of a list
Values(v) == {v[k] : k \in 1..Len(v)}

\* C24: for 1 <= pulses <= steps the pattern returned by bjorklund is
\* maximally even: its interval vector (the cyclic gaps between consecutive
\* ones, as interval_vector computes them) has one gap per pulse, takes at
\* most two values, and any two gaps differ by at most 1.
C24_MaximallyEven ==
    (bj_pc = "done" /\ 1 <= pulses /\ pulses <= steps) =>
        \E gaps \in {interval_vector(pattern)} :
            /\ Len(gaps) = pulses
            /\ Cardinality(Values(gaps)) <= 2
            /\ \A a \in Values(gaps), b \in Values(gaps) : a - b <= 1

\* E(3,8) and E(5,8): returned patterns whose gaps take two values, 3,3,2
\* and 2,1,2,1,2
C24_Witness ==
    /\ bj_pc = "done"
    /\ steps = 8
    /\ pulses \in {3, 5}
    /\ Cardinality(Values(interval_vector(pattern))) = 2
    /\ sum(interval_vector(pattern)) = steps

-----------------------------------------------------------------------------
(* Claims about scale2euclid (SpecS2E) and binome2euclid (SpecB2E) *)

\* the one-call form of bjorklund agrees with its step-by-step form
BjorklundCallAgrees ==
    /\ bj_pc = "done" => bjorklund(steps, pulses) = Pattern(pattern)
    /\ bj_pc = "failed" => bjorklund(steps, pulses) = Raises(bj_error)

\* the fractions of the scale, by position
ScaleFractions == 1..Len(rc_num)

\* what the claim C21 requires of the patterns appended for fraction k
TwoPatternsOfFraction(k) ==
    /\ Len(appended[k]) = 2
    /\ \A q \in 1..2 : Len(appended[k][q]) = rc_num[k] * denom[k]
    /\ \E q \in 1..2 :
          /\ Ones(appended[k][q]) = rc_num[k]
          /\ Ones(appended[k][3 - q]) = denom[k]

\* C21: in scale2euclid with mode 'full', patterns are appended for a
\* fraction num/denom of the scale if and only if denom <= max_denom, and
\* then exactly two, both of num*denom steps, one with num pulses and one
\* with denom pulses; the returned list holds them in the order of the scale.
C21_FullModeTwoPatternsPerFraction ==
    (rc_pc = "done" /\ mode = "full" /\ s2e_scale # <<>>) =>
        /\ euclid_patterns = Concat(appended)
        /\ \A k \in ScaleFractions :
              /\ appended[k] # <<>> <=> denom[k] <= max_denom
              /\ appended[k] # <<>> => TwoPatternsOfFraction(k)

\* what holds instead: the test of line 74 is on the numerator, and a
\* numerator of 0 makes bjorklund raise
C21_WhenNumeratorTested ==
    (rc_pc = "done" /\ mode = "full" /\ s2e_scale # <<>>) =>
        /\ euclid_patterns = Concat(appended)
        /\ \A k \in ScaleFractions :
              /\ appended[k] # <<>> <=> (1 <= rc_num[k] /\ rc_num[k] <= max_denom)
              /\ appended[k] # <<>> => TwoPatternsOfFraction(k)

\* the two returned ratio pairs (third element of the result)
RatioPairs == b2e_returned[3]

\* C25: whenever binome2euclid returns two patterns, pattern k has as many
\* steps as the second entry of the k-th returned ratio pair and as many
\* pulses as its first entry, whether the two denominators differ or not.
C25_RatioPairsDescribePatterns ==
    (rc_pc = "done" /\ binome # <<>> /\ Len(b2e_returned[1]) = 2) =>
        \A k \in 1..2 :
            /\ Len(b2e_returned[1][k]) = RatioPairs[k][2]
            /\ Ones(b2e_returned[1][k]) = RatioPairs[k][1]

\* what holds instead: the pairs describe the patterns when the two
\* denominators differ (or are both 1); the steps are always right
C25_WhenDenominatorsDiffer ==
    (rc_pc = "done" /\ binome # <<>> /\ Len(b2e_returned[1]) = 2) =>
        \A k \in 1..2 :
            /\ Len(b2e_returned[1][k]) = RatioPairs[k][2]
            /\ (denom[1] # denom[2] \/ denom[1] = 1) =>
                  Ones(b2e_returned[1][k]) = RatioPairs[k][1]

=============================================================================
